---- MODULE Spec2Model ----
(***************************************************************************)
(* Brick Kiln Labeling Tool (src/app.py): the Streamlit script seen as a   *)
(* state machine.  One step is one operator interaction followed by the    *)
(* script run(s) it triggers, up to the point where the page is idle       *)
(* again.  The state is st.session_state and what the latest script run    *)
(* left on the page; the sidebar widget values are inputs of the run.      *)
(* The pure functions are also run on their own, as single calls.          *)
(*                                                                         *)
(* Percentages and thresholds are whole numbers of percent; a filename is  *)
(* the sequence of its characters, the extension ".png" being one symbol.  *)
(***************************************************************************)
EXTENDS Integers, Sequences, FiniteSets, TLC

MaxRows == 2    \* rows of the category table
MaxNameLen == 5 \* characters of a filename handed to extract_coordinates alone
MaxPct == 2     \* largest share / threshold handed to the filter engine alone

VARIABLES df,             \* the category table, line 49
          filtered_data,  \* st.session_state.filtered_data, a sequence of rows
          current_index,  \* st.session_state.current_index
          labels,         \* st.session_state.labels
          labeled_count,  \* st.session_state.labeled_count
          clicked,        \* the control the operator used last
          raised,         \* the latest script run ended in an uncaught exception
          results,        \* the export records built by the latest script run
          call,           \* a function called on its own, with its arguments
          ret,            \* what that call returned
          streak          \* label actions in a row since the last applied filter

session == <<filtered_data, current_index, labels, labeled_count>>
page == <<clicked, raised, results>>
aux == <<call, ret, streak>>
vars == <<df, filtered_data, current_index, labels, labeled_count,
          clicked, raised, results, call, ret, streak>>

\* no function is being run on its own
NoCall == [fn |-> "none"]

----------------------------------------------------------------------------
(* Filenames and extract_coordinates *)

PNG == ".png"
Digits == <<"0", "1", "2", "3", "4", "5", "6", "7", "8", "9">>

DigitValue(c) == (CHOOSE i \in DOMAIN Digits : Digits[i] = c) - 1

IsDigit(c) == \E i \in DOMAIN Digits : Digits[i] = c

\* filename.replace('.png', ''): every occurrence is removed
RECURSIVE StripPng(_)
StripPng(s) ==
    IF s = <<>> THEN <<>>
    ELSE IF Head(s) = PNG THEN StripPng(Tail(s))
    ELSE <<Head(s)>> \o StripPng(Tail(s))

\* str.split('_'): always at least one token, tokens may be empty
RECURSIVE Split(_)
Split(s) ==
    IF s = <<>> THEN << <<>> >>
    ELSE IF Head(s) = "_" THEN << <<>> >> \o Split(Tail(s))
    ELSE LET rest == Split(Tail(s))
         IN  << <<Head(s)>> \o Head(rest) >> \o Tail(rest)

\* float(tok) succeeds: here, a non-empty run of digits
IsNumeric(tok) == tok # <<>> /\ \A i \in DOMAIN tok : IsDigit(tok[i])

RECURSIVE ToNumber(_)
ToNumber(tok) ==
    IF tok = <<>> THEN 0
    ELSE 10 * ToNumber(SubSeq(tok, 1, Len(tok) - 1)) + DigitValue(tok[Len(tok)])

\* [ok |-> FALSE] stands for the IndexError / ValueError of line 21
extract_coordinates(filename) ==
    LET coords == Split(StripPng(filename))
    IN  IF Len(coords) >= 2 /\ IsNumeric(coords[1]) /\ IsNumeric(coords[2])
        THEN [ok |-> TRUE, lat |-> ToNumber(coords[1]), lon |-> ToNumber(coords[2])]
        ELSE [ok |-> FALSE, lat |-> 0, lon |-> 0]

F1 == <<"1", "_", "2", PNG>>
F2 == <<"2", "_", "1", PNG>>
FBad == <<"1", PNG>>
FileNames == {F1, F2, FBad}

----------------------------------------------------------------------------
(* The category table and the sidebar *)

numeric_cols == <<"Built-up", "Vegetation">>
NumericColSet == {numeric_cols[i] : i \in DOMAIN numeric_cols}

\* land-cover shares of a tile, in percent: a mostly built-up tile and a
\* mostly vegetated one
Shares ==
    {[c \in NumericColSet |-> IF c = "Built-up" THEN 60 ELSE 40],
     [c \in NumericColSet |-> IF c = "Built-up" THEN 5 ELSE 95]}

\* a row of haryana_land_cover_distribution.csv
TileRows == [filename : FileNames, cats : Shares]
Tables == UNION {[1..n -> TileRows] : n \in 1..MaxRows}

FilterModes == {"Specific Category", "Any Category (Max %)", "All Locations"}

\* a multiselect value: the chosen options, in any order, none twice
Selections ==
    {s \in UNION {[1..n -> NumericColSet] : n \in 0..Len(numeric_cols)} :
        \A i, j \in DOMAIN s : i # j => s[i] # s[j]}

\* slider positions: both ends (lines 75-76, 87-88) and the two defaults
\* (lines 77, 89)
Thresholds == {0, 10, 50, 100}

\* lines 64-107: the values the sidebar hands to the rest of the script
SidebarValues ==
    [mode : {"Specific Category"}, category : NumericColSet, thr : Thresholds,
     consider : {numeric_cols}]
    \cup
    [mode : {"Any Category (Max %)"}, category : {numeric_cols[1]}, thr : Thresholds,
     consider : Selections]
    \cup
    [mode : {"All Locations"}, category : {numeric_cols[1]}, thr : {0},
     consider : {numeric_cols}]

\* lines 100-101
ConsiderOrAll(consider) == IF consider = <<>> THEN numeric_cols ELSE consider

----------------------------------------------------------------------------
(* Filter engine, lines 111-124 *)

RowMax(row, cols) ==
    CHOOSE m \in {row.cats[cols[i]] : i \in DOMAIN cols} :
        \A i \in DOMAIN cols : row.cats[cols[i]] <= m

\* variant of idxmax that returns the last column holding the maximum
RowIdxMax_Last(row, cols) ==
    LET m == RowMax(row, cols)
    IN  cols[CHOOSE i \in DOMAIN cols :
                /\ row.cats[cols[i]] = m
                /\ \A j \in (i + 1)..Len(cols) : row.cats[cols[j]] # m]

RowIdxMax(row, cols) ==
    LET m == RowMax(row, cols)
    IN  cols[CHOOSE i \in DOMAIN cols :
                /\ row.cats[cols[i]] = m
                /\ \A j \in 1..(i - 1) : row.cats[cols[j]] # m]

WithMax(row, cat, pct) ==
    [filename |-> row.filename, cats |-> row.cats,
     max_category |-> cat, max_percentage |-> pct]

\* variant of line 112 with a strict comparison
SpecificCategory_Strict(table, cat, thr) ==
    LET Keep(row) == row.cats[cat] > thr
        kept == SelectSeq(table, Keep)
    IN  [i \in DOMAIN kept |-> WithMax(kept[i], cat, kept[i].cats[cat])]

\* variant of line 112 that keeps the rows at or below the threshold
SpecificCategory_Below(table, cat, thr) ==
    LET Keep(row) == row.cats[cat] <= thr
        kept == SelectSeq(table, Keep)
    IN  [i \in DOMAIN kept |-> WithMax(kept[i], cat, kept[i].cats[cat])]

SpecificCategory(table, cat, thr) ==
    LET Keep(row) == row.cats[cat] >= thr
        kept == SelectSeq(table, Keep)
    IN  [i \in DOMAIN kept |-> WithMax(kept[i], cat, kept[i].cats[cat])]

AnyCategoryMax(table, cols, thr) ==
    LET all == [i \in DOMAIN table |->
                   WithMax(table[i], RowIdxMax(table[i], cols), RowMax(table[i], cols))]
        Keep(row) == row.max_percentage >= thr
    IN  SelectSeq(all, Keep)

AllLocations(table) ==
    [i \in DOMAIN table |->
        WithMax(table[i], RowIdxMax(table[i], numeric_cols), RowMax(table[i], numeric_cols))]

FilterEngine(table, mode, cat, thr, consider) ==
    IF mode = "Specific Category" THEN SpecificCategory(table, cat, thr)
    ELSE IF mode = "Any Category (Max %)" THEN AnyCategoryMax(table, ConsiderOrAll(consider), thr)
    ELSE AllLocations(table)

\* line 127: zip(*...) over no rows yields nothing to unpack into (lat, lon)
CoordinatesRaise(fdf) ==
    \/ fdf = <<>>
    \/ \E i \in DOMAIN fdf : ~extract_coordinates(fdf[i].filename).ok

AddCoordinates(fdf) ==
    [i \in DOMAIN fdf |->
        [filename |-> fdf[i].filename, cats |-> fdf[i].cats,
         max_category |-> fdf[i].max_category,
         max_percentage |-> fdf[i].max_percentage,
         lat |-> extract_coordinates(fdf[i].filename).lat,
         lon |-> extract_coordinates(fdf[i].filename).lon]]

----------------------------------------------------------------------------
(* st.session_state.labels: a dict, which keeps insertion order *)

Keys(lab) == {lab[i].filename : i \in DOMAIN lab}

DictGet(lab, k) == lab[CHOOSE i \in DOMAIN lab : lab[i].filename = k].label

DictSet(lab, k, v) ==
    IF k \in Keys(lab)
    THEN [i \in DOMAIN lab |->
            IF lab[i].filename = k THEN [filename |-> k, label |-> v] ELSE lab[i]]
    ELSE Append(lab, [filename |-> k, label |-> v])

----------------------------------------------------------------------------
(* Main content, lines 136-310 *)

total_locations == Len(filtered_data)

\* line 142 (iloc is 0-based), line 211
current_filename == filtered_data[current_index + 1].filename

\* line 282: the first subset row with that filename; iloc[0] raises on none
JoinRaises(fd, lab) ==
    \E i \in DOMAIN lab : \A j \in DOMAIN fd : fd[j].filename # lab[i].filename

FirstRow(fd, k) == fd[CHOOSE j \in DOMAIN fd :
                        /\ fd[j].filename = k
                        /\ \A h \in 1..(j - 1) : fd[h].filename # k]

\* variant of lines 280-290 that takes the row at the record's position
Export_ByPosition(fd, lab) ==
    [i \in DOMAIN lab |->
        LET row_data == fd[i]
        IN  [filename |-> lab[i].filename,
             lat |-> row_data.lat,
             lon |-> row_data.lon,
             brick_kiln |-> lab[i].label,
             dominant_category |-> row_data.max_category,
             max_percentage |-> row_data.max_percentage]]

\* lines 280-290
Export(fd, lab) ==
    [i \in DOMAIN lab |->
        LET row_data == FirstRow(fd, lab[i].filename)
        IN  [filename |-> lab[i].filename,
             lat |-> row_data.lat,
             lon |-> row_data.lon,
             brick_kiln |-> lab[i].label,
             dominant_category |-> row_data.max_category,
             max_percentage |-> row_data.max_percentage]]

\* line 142: iloc accepts -len..len-1
IlocRaises(fd, idx) == idx < -Len(fd) \/ idx >= Len(fd)

\* what a script run that reaches the main content leaves on the page
MainRaises(fd, idx, lab) ==
    fd # <<>> /\ (IlocRaises(fd, idx) \/ JoinRaises(fd, lab))

Render(fd, idx, lab) ==
    /\ raised' = MainRaises(fd, idx, lab)
    /\ results' = IF fd # <<>> /\ lab # <<>> /\ ~MainRaises(fd, idx, lab)
                  THEN Export(fd, lab) ELSE <<>>

\* the labeling interface is on the page
Rendered == ~raised /\ filtered_data # <<>>

----------------------------------------------------------------------------
(* Initial state: lines 23-32, 45, 49, 58-62 *)

Init ==
    /\ df \in Tables
    /\ filtered_data = <<>>
    /\ current_index = 0
    /\ labels = <<>>
    /\ labeled_count = 0
    /\ clicked = "none"
    /\ raised = FALSE
    /\ results = <<>>
    /\ call = NoCall
    /\ ret = NoCall
    /\ streak = 0

----------------------------------------------------------------------------
(* Operator actions *)

\* lines 58-107: the operator changes a sidebar widget; the script reruns
\* with no button pressed
SetSidebar ==
    /\ clicked' = "sidebar"
    /\ Render(filtered_data, current_index, labels)
    /\ UNCHANGED df
    /\ UNCHANGED session

\* variant of lines 129-132 without line 131-132: the labels survive the filter
StoreSubset_KeepLabels(filtered_df) ==
    /\ filtered_data' = filtered_df
    /\ current_index' = 0
    /\ UNCHANGED <<labels, labeled_count>>

\* variant of lines 129-132 without line 130: the cursor survives the filter
StoreSubset_KeepCursor(filtered_df) ==
    /\ filtered_data' = filtered_df
    /\ labels' = <<>>
    /\ labeled_count' = 0
    /\ UNCHANGED current_index

\* lines 129-132
StoreSubset(filtered_df) ==
    /\ filtered_data' = filtered_df
    /\ current_index' = 0
    /\ labels' = <<>>
    /\ labeled_count' = 0

\* variant of lines 126-133 that stores the subset before line 127 runs
ApplyFiltered_StoreFirst(filtered_df) ==
    /\ clicked' = "Apply Filter"
    /\ StoreSubset(AddCoordinates(filtered_df))
    /\ IF CoordinatesRaise(filtered_df)
       THEN /\ raised' = TRUE
            /\ results' = <<>>
       ELSE Render(filtered_data', current_index', labels')
    /\ UNCHANGED df

\* lines 126-133, for the filtered_df that lines 111-124 have built
ApplyFiltered(filtered_df) ==
    /\ clicked' = "Apply Filter"
    /\ IF CoordinatesRaise(filtered_df)
       THEN /\ raised' = TRUE
            /\ results' = <<>>
            /\ UNCHANGED session
       ELSE /\ StoreSubset(AddCoordinates(filtered_df))
            /\ Render(filtered_data', current_index', labels')
    /\ UNCHANGED df

\* lines 110-133, for the sidebar values of that run
ApplyFilterWith(filter_mode, selected_category, threshold, categories_to_consider) ==
    ApplyFiltered(FilterEngine(df, filter_mode, selected_category,
                               threshold, categories_to_consider))

\* lines 110-124: the subsets the sidebar can ask for
Filterable ==
    {FilterEngine(df, w.mode, w.category, w.thr, w.consider) : w \in SidebarValues}

\* lines 110-133: Apply Filter pressed, with any sidebar values
ApplyFilter ==
    \E filtered_df \in Filterable : ApplyFiltered(filtered_df)

\* variant of lines 225-231 without the membership test of line 226
YESHandler_CountAlways ==
    /\ labeled_count' = labeled_count + 1
    /\ labels' = DictSet(labels, current_filename, 1)
    /\ current_index' = IF current_index < total_locations - 1
                        THEN current_index + 1 ELSE current_index
    /\ UNCHANGED filtered_data

\* variant of lines 225-231 that reads the filename after the advance
YESHandler_AfterAdvance ==
    /\ current_index' = IF current_index < total_locations - 1
                        THEN current_index + 1 ELSE current_index
    /\ labeled_count' = IF filtered_data[current_index' + 1].filename \notin Keys(labels)
                        THEN labeled_count + 1 ELSE labeled_count
    /\ labels' = DictSet(labels, filtered_data[current_index' + 1].filename, 1)
    /\ UNCHANGED filtered_data

\* variant of lines 225-231 that moves an overwritten entry to the end
YESHandler_Reinsert ==
    /\ labeled_count' = IF current_filename \notin Keys(labels)
                        THEN labeled_count + 1 ELSE labeled_count
    /\ labels' = LET NotCurrent(e) == e.filename # current_filename
                 IN  Append(SelectSeq(labels, NotCurrent),
                            [filename |-> current_filename, label |-> 1])
    /\ current_index' = IF current_index < total_locations - 1
                        THEN current_index + 1 ELSE current_index
    /\ UNCHANGED filtered_data

\* lines 225-231
YESHandler ==
    /\ labeled_count' = IF current_filename \notin Keys(labels)
                        THEN labeled_count + 1 ELSE labeled_count
    /\ labels' = DictSet(labels, current_filename, 1)
    /\ current_index' = IF current_index < total_locations - 1
                        THEN current_index + 1 ELSE current_index
    /\ UNCHANGED filtered_data

YES ==
    /\ Rendered
    /\ YESHandler
    /\ clicked' = "YES"
    /\ Render(filtered_data', current_index', labels')
    /\ UNCHANGED df

\* variant of lines 235-241 that rebuilds the dict instead of updating it
NOHandler_Reassign ==
    /\ labeled_count' = IF current_filename \notin Keys(labels)
                        THEN labeled_count + 1 ELSE labeled_count
    /\ labels' = <<[filename |-> current_filename, label |-> 0]>>
    /\ current_index' = IF current_index < total_locations - 1
                        THEN current_index + 1 ELSE current_index
    /\ UNCHANGED filtered_data

\* variant of lines 235-241 that keeps the label an id already has
NOHandler_KeepFirst ==
    /\ labeled_count' = IF current_filename \notin Keys(labels)
                        THEN labeled_count + 1 ELSE labeled_count
    /\ labels' = IF current_filename \in Keys(labels) THEN labels
                 ELSE DictSet(labels, current_filename, 0)
    /\ current_index' = IF current_index < total_locations - 1
                        THEN current_index + 1 ELSE current_index
    /\ UNCHANGED filtered_data

\* lines 235-241
NOHandler ==
    /\ labeled_count' = IF current_filename \notin Keys(labels)
                        THEN labeled_count + 1 ELSE labeled_count
    /\ labels' = DictSet(labels, current_filename, 0)
    /\ current_index' = IF current_index < total_locations - 1
                        THEN current_index + 1 ELSE current_index
    /\ UNCHANGED filtered_data

NO ==
    /\ Rendered
    /\ NOHandler
    /\ clicked' = "NO"
    /\ Render(filtered_data', current_index', labels')
    /\ UNCHANGED df

\* variant of lines 244-250 without the advance of lines 248-249
QuickNOHandler_Stay ==
    /\ labeled_count' = IF current_filename \notin Keys(labels)
                        THEN labeled_count + 1 ELSE labeled_count
    /\ labels' = DictSet(labels, current_filename, 0)
    /\ UNCHANGED <<filtered_data, current_index>>

\* variant of lines 244-250 that wraps to the first row after the last
QuickNOHandler_Wrap ==
    /\ labeled_count' = IF current_filename \notin Keys(labels)
                        THEN labeled_count + 1 ELSE labeled_count
    /\ labels' = DictSet(labels, current_filename, 0)
    /\ current_index' = IF current_index < total_locations - 1
                        THEN current_index + 1 ELSE 0
    /\ UNCHANGED filtered_data

\* lines 244-250
QuickNOHandler ==
    /\ labeled_count' = IF current_filename \notin Keys(labels)
                        THEN labeled_count + 1 ELSE labeled_count
    /\ labels' = DictSet(labels, current_filename, 0)
    /\ current_index' = IF current_index < total_locations - 1
                        THEN current_index + 1 ELSE current_index
    /\ UNCHANGED filtered_data

QuickNO ==
    /\ Rendered
    /\ QuickNOHandler
    /\ clicked' = "Quick NO"
    /\ Render(filtered_data', current_index', labels')
    /\ UNCHANGED df

\* lines 258-260: the button is disabled at index 0
PreviousHandler ==
    /\ current_index' = current_index - 1
    /\ UNCHANGED <<filtered_data, labels, labeled_count>>

Previous ==
    /\ Rendered
    /\ ~(current_index = 0)
    /\ PreviousHandler
    /\ clicked' = "Previous"
    /\ Render(filtered_data', current_index', labels')
    /\ UNCHANGED df

\* lines 263-265: the button is disabled at the last index
NextHandler ==
    /\ current_index' = current_index + 1
    /\ UNCHANGED <<filtered_data, labels, labeled_count>>

NextLocation ==
    /\ Rendered
    /\ ~(current_index >= total_locations - 1)
    /\ NextHandler
    /\ clicked' = "Next"
    /\ Render(filtered_data', current_index', labels')
    /\ UNCHANGED df

\* variant of lines 268-271 without the bound test of line 269
SkipHandler_NoGuard ==
    /\ current_index' = current_index + 1
    /\ UNCHANGED <<filtered_data, labels, labeled_count>>

\* variant of lines 268-271 that labels the skipped row NO when it has no label
SkipHandler_DefaultNo ==
    /\ labels' = IF current_filename \in Keys(labels) THEN labels
                 ELSE DictSet(labels, current_filename, 0)
    /\ labeled_count' = Len(labels')
    /\ current_index' = IF current_index < total_locations - 1
                        THEN current_index + 1 ELSE current_index
    /\ UNCHANGED filtered_data

\* lines 268-271
SkipHandler ==
    /\ current_index' = IF current_index < total_locations - 1
                        THEN current_index + 1 ELSE current_index
    /\ UNCHANGED <<filtered_data, labels, labeled_count>>

Skip ==
    /\ Rendered
    /\ SkipHandler
    /\ clicked' = "Skip"
    /\ Render(filtered_data', current_index', labels')
    /\ UNCHANGED df

\* lines 276, 299-305: the export is offered once something is labeled
Download ==
    /\ Rendered
    /\ labels # <<>>
    /\ clicked' = "Download"
    /\ Render(filtered_data, current_index, labels)
    /\ UNCHANGED df
    /\ UNCHANGED session

Next ==
    \/ SetSidebar /\ UNCHANGED aux
    \/ ApplyFilter /\ UNCHANGED aux
    \/ YES /\ UNCHANGED aux
    \/ NO /\ UNCHANGED aux
    \/ QuickNO /\ UNCHANGED aux
    \/ Previous /\ UNCHANGED aux
    \/ NextLocation /\ UNCHANGED aux
    \/ Skip /\ UNCHANGED aux
    \/ Download /\ UNCHANGED aux

Spec == Init /\ [][Next]_vars

----------------------------------------------------------------------------
(* extract_coordinates on its own, lines 18-21 *)

Alphabet == {"1", "2", "_", "x", PNG}
Names == UNION {[1..n -> Alphabet] : n \in 1..MaxNameLen}

\* the app is not running
NoSession ==
    /\ df = <<>>
    /\ filtered_data = <<>>
    /\ current_index = 0
    /\ labels = <<>>
    /\ labeled_count = 0
    /\ clicked = "none"
    /\ raised = FALSE
    /\ results = <<>>
    /\ streak = 0

InitExtract ==
    /\ NoSession
    /\ call \in [fn : {"extract_coordinates"}, filename : Names]
    /\ ret = NoCall

CallExtract ==
    /\ call.fn = "extract_coordinates"
    /\ ret = NoCall
    /\ ret' = [fn |-> "extract_coordinates",
               value |-> extract_coordinates(call.filename)]
    /\ UNCHANGED <<df, session, page, call, streak>>

NextExtract == CallExtract

SpecExtract == InitExtract /\ [][NextExtract]_vars

----------------------------------------------------------------------------
(* The program with a record of its label actions: streak is the number of
   label actions since the last Apply Filter that stored a subset, counted up
   to MaxStreak, and -1 once a navigation button has come between them *)

MaxStreak == MaxRows + 1

\* lines 129-132 start a new subset; a run that raised has stored nothing
StartStreak ==
    /\ streak' = IF raised' THEN streak ELSE 0
    /\ UNCHANGED <<call, ret>>

\* lines 224-250: one more label action
CountStreak ==
    /\ streak' = IF streak < 0 THEN streak
                 ELSE IF streak < MaxStreak THEN streak + 1 ELSE MaxStreak
    /\ UNCHANGED <<call, ret>>

\* lines 257-271: a navigation button has been pressed
BreakStreak ==
    /\ streak' = -1
    /\ UNCHANGED <<call, ret>>

NextLabeling ==
    \/ SetSidebar /\ UNCHANGED aux
    \/ ApplyFilter /\ StartStreak
    \/ YES /\ CountStreak
    \/ NO /\ CountStreak
    \/ QuickNO /\ CountStreak
    \/ Previous /\ BreakStreak
    \/ NextLocation /\ BreakStreak
    \/ Skip /\ BreakStreak
    \/ Download /\ UNCHANGED aux

SpecLabeling == Init /\ [][NextLabeling]_vars

----------------------------------------------------------------------------
(* The filter engine of lines 111-124 run on its own: one call builds
   filtered_df from a table and the sidebar values *)

\* shares and thresholds on a small scale, every combination of them
Pcts == 0..MaxPct
PctRows == [filename : {F1}, cats : [NumericColSet -> Pcts]]
PctTables == UNION {[1..n -> PctRows] : n \in 1..MaxRows}

\* lines 64-107 on that scale
PctSidebarValues ==
    [mode : {"Specific Category"}, category : NumericColSet, thr : Pcts,
     consider : {numeric_cols}]
    \cup
    [mode : {"Any Category (Max %)"}, category : {numeric_cols[1]}, thr : Pcts,
     consider : Selections]
    \cup
    [mode : {"All Locations"}, category : {numeric_cols[1]}, thr : {0},
     consider : {numeric_cols}]

InitFilter ==
    /\ NoSession
    /\ \E table \in PctTables, w \in PctSidebarValues :
          call = [fn |-> "FilterEngine", table |-> table, mode |-> w.mode,
                  category |-> w.category, thr |-> w.thr, consider |-> w.consider]
    /\ ret = NoCall

\* lines 111-124
CallFilter ==
    /\ call.fn = "FilterEngine"
    /\ ret = NoCall
    /\ ret' = [fn |-> "FilterEngine",
               subset |-> FilterEngine(call.table, call.mode, call.category,
                                       call.thr, call.consider)]
    /\ UNCHANGED <<df, session, page, call, streak>>

NextFilter == CallFilter

SpecFilter == InitFilter /\ [][NextFilter]_vars

----------------------------------------------------------------------------
(* Properties *)

LabelButtons == {"YES", "NO", "Quick NO"}
NavButtons == {"Previous", "Next", "Skip"}

LastIndex == IF Len(filtered_data) = 0 THEN 0 ELSE Len(filtered_data) - 1

\* the subset without the lat / lon columns of line 127
DropCoordinates(fd) ==
    [i \in DOMAIN fd |-> WithMax(fd[i], fd[i].max_category, fd[i].max_percentage)]

\* C1: in every reachable state labeled_count is the number of distinct keys
\* of the label map (one dict entry per key).
C1_CountEqualsKeys ==
    /\ labeled_count = Cardinality(Keys(labels))
    /\ labeled_count = Len(labels)

\* a label given at the last index of a subset of two rows with the same id
C1_Witness ==
    /\ clicked \in LabelButtons
    /\ Len(filtered_data) >= 2
    /\ current_index = Len(filtered_data) - 1
    /\ filtered_data[1].filename = filtered_data[2].filename
    /\ labeled_count = 1

\* C2: the cursor stays in [0, max(0, len(subset)-1)]; an advancing action at
\* the last index and a retreat at index 0 leave it unchanged; on an empty
\* subset it stays 0.
CursorInRange == current_index >= 0 /\ current_index <= LastIndex

C2_CursorBounded ==
    /\ CursorInRange
    /\ [][/\ CursorInRange'
          /\ (clicked' \in (LabelButtons \cup {"Next", "Skip"}) /\ current_index = LastIndex)
                => current_index' = current_index
          /\ (clicked' = "Previous" /\ current_index = 0) => current_index' = current_index
          /\ filtered_data' = <<>> => current_index' = 0]_vars

\* Skip pressed at the last index of a subset of at least two rows
C2_Witness ==
    /\ clicked = "Skip"
    /\ Len(filtered_data) >= 2
    /\ current_index = Len(filtered_data) - 1

\* every id of the table parses into coordinates
WellFormedTable == \A i \in DOMAIN df : extract_coordinates(df[i].filename).ok

\* C3 (as claimed, on a table whose ids all parse): every Apply Filter action
\* leaves the cursor at 0, the label map empty, labeled_count at 0 and the
\* subset equal to the result of the selected policy on the table.
C3_ApplyAlwaysResets ==
    [][\A w \in SidebarValues :
          (WellFormedTable /\ ApplyFilterWith(w.mode, w.category, w.thr, w.consider)) =>
             /\ current_index' = 0
             /\ labels' = <<>>
             /\ labeled_count' = 0
             /\ DropCoordinates(filtered_data') =
                    FilterEngine(df, w.mode, w.category, w.thr, w.consider)]_vars

\* C4 (as claimed, on a table whose ids all parse): applying a filter that no
\* row satisfies completes without an exception and leaves an empty subset,
\* cursor 0 and an empty label map.
C4_EmptyFilterCompletes ==
    [][\A w \in SidebarValues :
          (/\ WellFormedTable
           /\ ApplyFilterWith(w.mode, w.category, w.thr, w.consider)
           /\ FilterEngine(df, w.mode, w.category, w.thr, w.consider) = <<>>) =>
             /\ ~raised'
             /\ filtered_data' = <<>>
             /\ current_index' = 0
             /\ labels' = <<>>
             /\ labeled_count' = 0]_vars

\* C5: every key of the label map is the filename of a row of the current
\* subset, and no script run fails in the export join (the only run that
\* raises is an Apply Filter run).
C5_LabelsWithinSubset ==
    /\ \A k \in Keys(labels) : \E j \in DOMAIN filtered_data : filtered_data[j].filename = k
    /\ ~JoinRaises(filtered_data, labels)
    /\ raised => clicked = "Apply Filter"

\* an export of two labeled ids has been built
C5_Witness == ~raised /\ Len(labels) = 2 /\ Len(results) = 2

\* C6: a step that changes the subset also resets cursor, labels and count;
\* an Apply Filter step leaves the four session variables either all as they
\* were or all as a fresh subset has them.
C6_AtomicReplace ==
    [][/\ filtered_data' # filtered_data =>
             current_index' = 0 /\ labels' = <<>> /\ labeled_count' = 0
       /\ clicked' = "Apply Filter" =>
             \/ UNCHANGED <<filtered_data, current_index, labels, labeled_count>>
             \/ /\ ~raised'
                /\ current_index' = 0 /\ labels' = <<>> /\ labeled_count' = 0]_vars

\* a filter that keeps only part of the table has just been applied
C6_Witness ==
    /\ clicked = "Apply Filter"
    /\ ~raised
    /\ filtered_data # <<>>
    /\ Len(filtered_data) < Len(df)

\* C7: the export holds exactly one record per label map entry, with that
\* entry's id and label (0 or 1) and the lat, lon, max_category and
\* max_percentage of a subset row with that id.
C7_ExportRecords ==
    (Rendered /\ labels # <<>>) =>
        /\ Len(results) = Cardinality(Keys(labels))
        /\ \A k \in Keys(labels) :
              /\ Cardinality({i \in DOMAIN results : results[i].filename = k}) = 1
              /\ \A i \in DOMAIN results : results[i].filename = k =>
                    /\ results[i].brick_kiln = DictGet(labels, k)
                    /\ results[i].brick_kiln \in {0, 1}
                    /\ \E j \in DOMAIN filtered_data :
                          /\ filtered_data[j].filename = k
                          /\ results[i].lat = filtered_data[j].lat
                          /\ results[i].lon = filtered_data[j].lon
                          /\ results[i].dominant_category = filtered_data[j].max_category
                          /\ results[i].max_percentage = filtered_data[j].max_percentage

\* two ids exported, the second subset row labeled before the first
C7_Witness ==
    /\ Rendered
    /\ Len(results) = 2
    /\ Len(filtered_data) = 2
    /\ results[1].filename = filtered_data[2].filename
    /\ results[1].filename # results[2].filename
    /\ results[1].brick_kiln # results[2].brick_kiln

\* C8: Previous, Next and Skip leave the label map and labeled_count
\* unchanged; a key enters the label map only by a YES, NO or Quick NO
\* action, and it is the id of the row under the cursor.
C8_NavigationNeverLabels ==
    [][/\ clicked' \in NavButtons => UNCHANGED <<labels, labeled_count>>
       /\ \A k \in Keys(labels') \ Keys(labels) :
             /\ clicked' \in LabelButtons
             /\ Rendered
             /\ k = current_filename]_vars

\* the cursor was moved past an unlabeled first row
C8_Witness ==
    /\ clicked \in NavButtons
    /\ current_index >= 1
    /\ filtered_data[1].filename \notin Keys(labels)

\* C9: a Quick NO step is a step of the NO handler; a Skip step is a step of
\* the Next handler below the last index and changes nothing at the last index.
C9_QuickNoAndSkipAliases ==
    [][/\ clicked' = "Quick NO" => NOHandler
       /\ clicked' = "Skip" =>
             IF current_index < total_locations - 1
             THEN NextHandler
             ELSE UNCHANGED <<filtered_data, current_index, labels, labeled_count>>]_vars

\* Quick NO has labeled a row and moved on
C9_Witness ==
    /\ clicked = "Quick NO"
    /\ current_index >= 1
    /\ \E i \in DOMAIN labels : labels[i].label = 0

\* C10: the key set of the label map only grows, except in an Apply Filter
\* step, which empties the label map when it removes anything.
C10_KeysOnlyGrow ==
    [][\/ Keys(labels) \subseteq Keys(labels')
       \/ clicked' = "Apply Filter" /\ labels' = <<>>]_vars

\* a second id has been labeled NO after a first one
C10_Witness ==
    /\ clicked = "NO"
    /\ Len(labels) = 2

\* the id, without ".png" and split on "_", is exactly two numeric tokens
ExactlyTwoNumeric(filename) ==
    LET tokens == Split(StripPng(filename))
    IN  Len(tokens) = 2 /\ IsNumeric(tokens[1]) /\ IsNumeric(tokens[2])

\* C11 (as claimed): extract_coordinates fails for every id that does not
\* split into exactly two numeric tokens, ids of three or more tokens included.
C11_RejectsAllButTwoTokens ==
    (ret.fn = "extract_coordinates" /\ ~ExactlyTwoNumeric(call.filename))
        => ~ret.value.ok

\* the rows of a filtered table whose id parses
Parseable(fdf) ==
    LET Ok(row) == extract_coordinates(row.filename).ok
    IN  SelectSeq(fdf, Ok)

\* C12 (as claimed): when a retained row has an id that does not parse, Apply
\* Filter drops that row and completes with the other retained rows, the
\* cursor at 0 and no labels.
C12_MalformedRowDropped ==
    [][\A w \in SidebarValues :
          LET filtered_df == FilterEngine(df, w.mode, w.category, w.thr, w.consider)
          IN  (/\ ApplyFilterWith(w.mode, w.category, w.thr, w.consider)
               /\ Parseable(filtered_df) # filtered_df
               /\ Parseable(filtered_df) # <<>>) =>
                 /\ ~raised'
                 /\ DropCoordinates(filtered_data') = Parseable(filtered_df)
                 /\ current_index' = 0
                 /\ labels' = <<>>
                 /\ labeled_count' = 0]_vars

\* C13: an Apply Filter run that raises leaves the subset, the cursor, the
\* label map and labeled_count exactly as they were.
C13_FailedApplyKeepsState ==
    [][(clicked' = "Apply Filter" /\ raised') =>
          UNCHANGED <<filtered_data, current_index, labels, labeled_count>>]_vars

\* an Apply Filter has failed over a subset with labels and a moved cursor
C13_Witness ==
    /\ clicked = "Apply Filter"
    /\ raised
    /\ labels # <<>>
    /\ current_index >= 1

\* the k-th smallest element of a set of row positions
KthIndex(S, k) == CHOOSE i \in S : Cardinality({j \in S : j < i}) = k - 1

\* subset holds exactly the table rows at the positions S, in table order
RowsAt(subset, table, S) ==
    /\ Len(subset) = Cardinality(S)
    /\ \A k \in DOMAIN subset :
          /\ subset[k].filename = table[KthIndex(S, k)].filename
          /\ subset[k].cats = table[KthIndex(S, k)].cats

\* C14: Specific Category (c, t) keeps exactly the rows with categories[c] >= t,
\* a row at t included, in table order, each with max_category = c and
\* max_percentage = categories[c].
C14_SpecificCategoryExact ==
    (ret.fn = "FilterEngine" /\ call.mode = "Specific Category") =>
        LET c == call.category
            kept == {i \in DOMAIN call.table : call.table[i].cats[c] >= call.thr}
        IN  /\ RowsAt(ret.subset, call.table, kept)
            /\ \A k \in DOMAIN ret.subset :
                  /\ ret.subset[k].max_category = c
                  /\ ret.subset[k].max_percentage = ret.subset[k].cats[c]

\* a call kept a row whose share equals the threshold and dropped another row
C14_Witness ==
    /\ ret.fn = "FilterEngine"
    /\ call.mode = "Specific Category"
    /\ \E k \in DOMAIN ret.subset : ret.subset[k].cats[call.category] = call.thr
    /\ Len(ret.subset) < Len(call.table)

\* C15: Any Category (t, S) gives each row the maximum of its shares over S and
\* the first category of S attaining it, keeps exactly the rows whose maximum
\* is >= t, in table order, and uses every category when S is empty.
C15_AnyCategoryMaxExact ==
    (ret.fn = "FilterEngine" /\ call.mode = "Any Category (Max %)") =>
        LET S == IF call.consider = <<>> THEN numeric_cols ELSE call.consider
            IsMax(row, m) == /\ \E i \in DOMAIN S : row.cats[S[i]] = m
                             /\ \A i \in DOMAIN S : row.cats[S[i]] <= m
            kept == {i \in DOMAIN call.table :
                        \E m \in Pcts : IsMax(call.table[i], m) /\ m >= call.thr}
        IN  /\ RowsAt(ret.subset, call.table, kept)
            /\ \A k \in DOMAIN ret.subset :
                  /\ IsMax(ret.subset[k], ret.subset[k].max_percentage)
                  /\ \E i \in DOMAIN S :
                        /\ ret.subset[k].max_category = S[i]
                        /\ ret.subset[k].cats[S[i]] = ret.subset[k].max_percentage
                        /\ \A j \in 1..(i - 1) :
                              ret.subset[k].cats[S[j]] < ret.subset[k].max_percentage

\* a call with nothing selected kept a row whose two shares tie and dropped
\* another row
C15_Witness ==
    /\ ret.fn = "FilterEngine"
    /\ call.mode = "Any Category (Max %)"
    /\ call.consider = <<>>
    /\ \E k \in DOMAIN ret.subset :
          /\ ret.subset[k].cats[numeric_cols[1]] = ret.subset[k].cats[numeric_cols[2]]
          /\ ret.subset[k].max_category = numeric_cols[1]
    /\ Len(ret.subset) < Len(call.table)

\* C16: the Specific Category subset shrinks as the threshold grows: for every
\* t1 <= t2 the subset for (c, t2) has no more rows than the subset for (c, t1)
\* and each of its rows is in that subset.
C16_MonotonicShrink ==
    (ret.fn = "FilterEngine" /\ call.mode = "Specific Category") =>
        \A t1 \in Pcts :
            t1 <= call.thr =>
                LET lower == SpecificCategory(call.table, call.category, t1)
                IN  /\ Len(ret.subset) <= Len(lower)
                    /\ \A k \in DOMAIN ret.subset :
                          \E j \in DOMAIN lower : lower[j] = ret.subset[k]

\* a call whose subset is non-empty and strictly smaller than the subset of
\* threshold 0
C16_Witness ==
    /\ ret.fn = "FilterEngine"
    /\ call.mode = "Specific Category"
    /\ call.thr >= 1
    /\ ret.subset # <<>>
    /\ Len(ret.subset) < Len(SpecificCategory(call.table, call.category, 0))

\* line 212: the label shown for an id (labels.get(filename, None)), as a
\* set: empty when the id has no label
LabelOf(lab, k) == {lab[i].label : i \in {h \in DOMAIN lab : lab[h].filename = k}}

\* the value a label button stores
ButtonValue(button) == IF button = "YES" THEN 1 ELSE 0

\* C17 (as claimed): a label action leaves the looked-up label of every row
\* other than the row under the cursor as it was, also with repeated ids.
C17_OnlyCursorRowChanges ==
    [][clicked' \in LabelButtons =>
          \A j \in DOMAIN filtered_data :
              j # current_index + 1 =>
                  LabelOf(labels', filtered_data[j].filename)
                      = LabelOf(labels, filtered_data[j].filename)]_vars

\* C17 (amended): a label action leaves the looked-up label of every row whose
\* id differs from the id of the row under the cursor as it was; the rows with
\* that id, the row under the cursor among them, all take the new label.
C17_OnlyCursorIdChanges ==
    [][clicked' \in LabelButtons =>
          \A j \in DOMAIN filtered_data :
              IF filtered_data[j].filename = current_filename
              THEN LabelOf(labels', filtered_data[j].filename) = {ButtonValue(clicked')}
              ELSE LabelOf(labels', filtered_data[j].filename)
                      = LabelOf(labels, filtered_data[j].filename)]_vars

\* a label action on the second of two rows with different ids has left the
\* first row's other label in place
C17_Witness ==
    /\ clicked \in LabelButtons
    /\ Len(filtered_data) = 2
    /\ filtered_data[1].filename # filtered_data[2].filename
    /\ current_index = 1
    /\ Keys(labels) = {filtered_data[1].filename, filtered_data[2].filename}
    /\ DictGet(labels, filtered_data[1].filename) = 1 - ButtonValue(clicked)
    /\ DictGet(labels, filtered_data[2].filename) = ButtonValue(clicked)

\* C19: a label action stores the button's value (1 for YES, 0 for NO and
\* Quick NO) for the id under the cursor and leaves every other entry alone, an
\* overwrite adds no key and keeps labeled_count, and no step other than a
\* label action or an Apply Filter changes the label map: the stored label of
\* an id is the value of the latest label action on it since the last Apply
\* Filter.
C19_LastWriteWins ==
    [][/\ clicked' \in LabelButtons =>
             /\ current_filename \in Keys(labels')
             /\ DictGet(labels', current_filename) = ButtonValue(clicked')
             /\ \A k \in Keys(labels) \ {current_filename} :
                   k \in Keys(labels') /\ DictGet(labels', k) = DictGet(labels, k)
             /\ current_filename \in Keys(labels) =>
                   /\ Keys(labels') = Keys(labels)
                   /\ Len(labels') = Len(labels)
                   /\ labeled_count' = labeled_count
       /\ clicked' = "Apply Filter" => (labels' = <<>> \/ labels' = labels)
       /\ clicked' \notin (LabelButtons \cup {"Apply Filter"}) => labels' = labels]_vars

\* YES has overwritten the NO of the second row: the second row's entry is
\* older than the first row's, and the first row's NO rules out a YES there
C19_Witness ==
    /\ clicked = "YES"
    /\ Len(filtered_data) = 2
    /\ current_index = 1
    /\ labeled_count = 2
    /\ labels = <<[filename |-> filtered_data[2].filename, label |-> 1],
                  [filename |-> filtered_data[1].filename, label |-> 0]>>

\* the ids of the export records, in order
RecordIds(recs) == [i \in DOMAIN recs |-> recs[i].filename]

\* C20: the export lists the ids in the order in which they were first labeled
\* since the last Apply Filter, not in subset order: a label action on a new
\* id appends its record, a label action on a labeled id changes that record's
\* label and no record's position.
C20_ExportInsertionOrder ==
    [][(clicked' \in LabelButtons /\ ~raised') =>
          /\ RecordIds(results') =
                IF current_filename \in Keys(labels)
                THEN RecordIds(results)
                ELSE Append(RecordIds(results), current_filename)
          /\ \A i \in DOMAIN results' :
                results'[i].brick_kiln =
                    IF results'[i].filename = current_filename
                    THEN ButtonValue(clicked')
                    ELSE results[i].brick_kiln]_vars

\* the export lists the second row before the first, and the second row's
\* record has been overwritten in place
C20_Witness ==
    /\ clicked = "YES"
    /\ ~raised
    /\ Len(filtered_data) = 2
    /\ current_index = 1
    /\ Len(results) = 2
    /\ results[1].filename = filtered_data[2].filename
    /\ results[2].filename = filtered_data[1].filename
    /\ results[1].filename # results[2].filename
    /\ results[1].brick_kiln = 1
    /\ results[2].brick_kiln = 0

\* C18: from a freshly applied filter with n >= 1 rows, the k-th consecutive
\* label action (k <= n) is taken at index k-1 and leaves rows 1..k labeled
\* and the cursor at k, or at n-1 when k = n: n label actions label every row
\* and end at n-1. Every later label action keeps the cursor at n-1 and
\* overwrites only the entry of the last row.
C18_LabelingCompletes ==
    [][(clicked' \in LabelButtons /\ streak >= 0) =>
          LET n == Len(filtered_data)
          IN  IF streak < n
              THEN /\ current_index = streak
                   /\ \A j \in 1..(streak + 1) :
                         filtered_data[j].filename \in Keys(labels')
                   /\ current_index' = IF streak + 1 < n THEN streak + 1 ELSE n - 1
              ELSE /\ current_index = n - 1
                   /\ current_index' = n - 1
                   /\ \A j \in 1..n : filtered_data[j].filename \in Keys(labels')
                   /\ Keys(labels') = Keys(labels)
                   /\ labeled_count' = labeled_count
                   /\ \A k \in Keys(labels) \ {filtered_data[n].filename} :
                         DictGet(labels', k) = DictGet(labels, k)]_vars

\* more label actions than rows have followed a fresh filter of two or more
\* rows with different ids
C18_Witness ==
    /\ clicked \in LabelButtons
    /\ Len(filtered_data) >= 2
    /\ streak > Len(filtered_data)
    /\ current_index = Len(filtered_data) - 1
    /\ labeled_count = Len(filtered_data)

====
